---- MODULE Spec2Model ----
(***************************************************************************)
(* Front end of the expression language: the tokenizer, the token cursor  *)
(* (a peekable stream of tokenizer items), the precedence-climbing         *)
(* expression parser, the block parser and the Parser iterator.            *)
(*                                                                         *)
(* Strings are sequences of string pieces, so that format!() is \o and a   *)
(* message that is passed on unchanged is the same sequence.                *)
(***************************************************************************)
EXTENDS Integers, Sequences, FiniteSets, TLC

VARIABLES
    chars,    \* the source text, a sequence of chars
    lexer,    \* the tokenizer pulled on its own: the chars it has consumed
    items,    \* what its pulls have returned so far, with the chars of each item
    tokens,   \* the items the tokenizer yields, in order (Ok tokens and Err items)
    parser,   \* the cursor: pos = items consumed, seen = items yielded (peeked or consumed)
    result,   \* what the last call returned
    op,       \* the last call: "none", "next" (Parser::next), "block" (Block::parse)
              \* or "lex" (TokenizerInner::next)
    from,     \* the cursor as it was when the last call started
    units     \* number of Some(..) items the Parser iterator has returned

vars == <<chars, lexer, items, tokens, parser, result, op, from, units>>

Max(a, b) == IF a >= b THEN a ELSE b
Min(a, b) == IF a <= b THEN a ELSE b

----------------------------------------------------------------------------
(* tokenizer.rs: Token and the items of the stream *)

Number(s) == [k |-> "Number", s |-> s]
Operator(c) == [k |-> "Operator", s |-> <<c>>]
Symbol(s) == [k |-> "Symbol", s |-> s]
LexErr(e) == [k |-> "Err", s |-> e]
NoItem == [k |-> "None", s |-> <<>>]

\* the characters of the source text: a char is the string that names it
BEL == "U+0007"
Whitespace == {" ", "\n"}
Digits == {"0", "1", "2", "3", "4", "5", "6", "7", "8", "9"}
Letters == {"a", "b", "c", "e", "i", "l", "n", "r", "t", "u", "v", "x", "y"}
Punctuation == {"+", "-", "*", "/", "(", ")", "{", "}", ";", ":", "=", "_"}

\* char::is_whitespace, is_numeric, is_ascii_punctuation, is_alphanumeric
is_whitespace(c) == c \in Whitespace
is_numeric(c) == c \in Digits
is_ascii_punctuation(c) == c \in Punctuation
is_alphanumeric(c) == c \in Letters \cup Digits

\* what a pull of TokenizerInner returns: the item, the chars consumed before
\* its first char (from) and the chars consumed after the pull (pos)
Lexed(from_, pos, item) == [from |-> from_, pos |-> pos, item |-> item]

\* the while loops of next_number and next_symbol: the chars consumed once
\* the run that starts after i chars has been pushed
RECURSIVE number_run(_, _)
number_run(cs, i) ==
    IF i < Len(cs) /\ is_numeric(cs[i + 1]) THEN number_run(cs, i + 1) ELSE i

RECURSIVE symbol_run(_, _)
symbol_run(cs, i) ==
    IF i < Len(cs) /\ is_alphanumeric(cs[i + 1]) THEN symbol_run(cs, i + 1) ELSE i

\* next_number that does not look at the char after the run
next_number_unchecked(cs, i) ==
    LET j == number_run(cs, i)
    IN Lexed(i, j, Number(SubSeq(cs, i + 1, j)))

\* TokenizerInner::next_number
next_number(cs, i) ==
    LET j == number_run(cs, i)
    IN IF j < Len(cs) /\ is_alphanumeric(cs[j + 1])
       THEN Lexed(i, j, LexErr(<<"Number cannot be followed by a letter">>))
       ELSE Lexed(i, j, Number(SubSeq(cs, i + 1, j)))

\* next_operator that takes the punctuation char after the first one with it
next_operator_pair(cs, i) ==
    IF i >= Len(cs)
    THEN Lexed(i, i, LexErr(<<"Expected operator but found end of input">>))
    ELSE IF i + 1 < Len(cs) /\ is_ascii_punctuation(cs[i + 2])
    THEN Lexed(i, i + 2, Operator(cs[i + 1]))
    ELSE Lexed(i, i + 1, Operator(cs[i + 1]))

\* TokenizerInner::next_operator
next_operator(cs, i) ==
    IF i >= Len(cs)
    THEN Lexed(i, i, LexErr(<<"Expected operator but found end of input">>))
    ELSE Lexed(i, i + 1, Operator(cs[i + 1]))

\* TokenizerInner::next_symbol
next_symbol(cs, i) ==
    LET j == symbol_run(cs, i)
    IN Lexed(i, j, Symbol(SubSeq(cs, i + 1, j)))

\* impl Iterator for TokenizerInner: one pull after i chars have been consumed
RECURSIVE TokenizerInner_next(_, _)
TokenizerInner_next(cs, i) ==
    IF i >= Len(cs) THEN Lexed(i, i, NoItem)
    ELSE CASE is_whitespace(cs[i + 1]) -> TokenizerInner_next(cs, i + 1)
           [] is_numeric(cs[i + 1]) -> next_number(cs, i)
           [] is_ascii_punctuation(cs[i + 1]) -> next_operator(cs, i)
           [] is_alphanumeric(cs[i + 1]) -> next_symbol(cs, i)
           [] OTHER -> Lexed(i, i, NoItem)

\* Tokenizer: the items the pulls return, in order, up to the first None
RECURSIVE Tokenize(_, _), tokenize_from(_, _)
tokenize_from(cs, r) ==
    IF r.item.k = "None" THEN <<>> ELSE <<r.item>> \o Tokenize(cs, r.pos)

Tokenize(cs, i) == tokenize_from(cs, TokenizerInner_next(cs, i))

\* impl Display for Token
fmt(t) ==
    CASE t.k = "Number" -> <<"Number(">> \o t.s \o <<")">>
      [] t.k = "Operator" -> <<"Operator(">> \o t.s \o <<")">>
      [] t.k = "Symbol" -> <<"Symbol(">> \o t.s \o <<")">>

\* Peekable::peek: the next item, not consumed
peek(p) == IF p.pos < Len(tokens) THEN tokens[p.pos + 1] ELSE NoItem

\* the cursor after a peek: the item has been pulled out of the tokenizer
peeked(p) == [p EXCEPT !.seen = Max(p.seen, Min(p.pos + 1, Len(tokens)))]

\* the cursor after Tokenizer::next (the item returned is peek(p))
next(p) ==
    [pos |-> Min(p.pos + 1, Len(tokens)),
     seen |-> Max(p.seen, Min(p.pos + 1, Len(tokens)))]

Ok(p, v) == [p |-> p, ok |-> TRUE, val |-> v]
Err(p, e) == [p |-> p, ok |-> FALSE, val |-> [tag |-> "Error", text |-> e]]

expect_symbol(p) ==
    LET t == peek(p)
        q == next(p)
    IN CASE t.k = "Symbol" -> Ok(q, t.s)
         [] t.k = "Number" -> Err(q, <<"Expected symbol but found number: ">> \o t.s)
         [] t.k = "Operator" -> Err(q, <<"Expected symbol but found operator: ">> \o t.s)
         [] t.k = "Err" -> Err(q, t.s)
         [] t.k = "None" -> Err(q, <<"Expected symbol but found end of input">>)

\* expect_operator that reports a lexical error as the end of the input
expect_operator_swallow(p) ==
    LET t == peek(p)
        q == next(p)
    IN CASE t.k = "Operator" -> Ok(q, t.s[1])
         [] t.k = "Number" -> Err(q, <<"Expected operator but found number: ">> \o t.s)
         [] t.k = "Symbol" -> Err(q, <<"Expected operator but found symbol: ">> \o t.s)
         [] OTHER -> Err(q, <<"Expected operator but found end of input">>)

expect_operator(p) ==
    LET t == peek(p)
        q == next(p)
    IN CASE t.k = "Operator" -> Ok(q, t.s[1])
         [] t.k = "Number" -> Err(q, <<"Expected operator but found number: ">> \o t.s)
         [] t.k = "Symbol" -> Err(q, <<"Expected operator but found symbol: ">> \o t.s)
         [] t.k = "Err" -> Err(q, t.s)
         [] t.k = "None" -> Err(q, <<"Expected operator but found end of input">>)

expect_operator_of(p, expected) ==
    LET r == expect_operator(p)
    IN IF ~r.ok THEN r
       ELSE IF r.val = expected THEN Ok(r.p, <<>>)
       ELSE Err(r.p, <<"Expected operator '", expected, "' but found '", r.val, "'">>)

----------------------------------------------------------------------------
(* expression.rs and block.rs: the AST *)

Literal(n) == [tag |-> "Literal", n |-> n]
Variable(s) == [tag |-> "Variable", s |-> s]
BlockE(b) == [tag |-> "Block", block |-> b]
Binary(tag, l, r) == [tag |-> tag, l |-> l, r |-> r]

LineExpression(e) == [tag |-> "Expression", value |-> e]
LetStatement(name, value, type_) ==
    [tag |-> "LetStatement", name |-> name, value |-> value, type_ |-> type_]
ReturnStatement(e) == [tag |-> "ReturnStatement", value |-> e]
SomeType(s) == [some |-> TRUE, s |-> s]
NoType == [some |-> FALSE, s |-> <<>>]
Block(lines) == [lines |-> lines]

AstExpression(e) == [tag |-> "AstExpression", e |-> e]

\* str::parse::<f64> on a digit run: the value of the decimal numeral
AsciiDigits == <<"0", "1", "2", "3", "4", "5", "6", "7", "8", "9">>

DigitVal(c) == (CHOOSE i \in 1..10 : AsciiDigits[i] = c) - 1

IsFloatText(s) == s # <<>> /\ \A i \in 1..Len(s) : \E d \in 1..10 : AsciiDigits[d] = s[i]

RECURSIVE NumVal(_)
NumVal(s) ==
    IF s = <<>> THEN 0
    ELSE 10 * NumVal(SubSeq(s, 1, Len(s) - 1)) + DigitVal(s[Len(s)])

\* precedence with the two tiers exchanged
precedence_swapped(c) ==
    CASE c \in {"*", "/"} -> 2
      [] c \in {"+", "-"} -> 1
      [] c = ")" -> 100
      [] OTHER -> 100

\* precedence that gives '=' the level of '+' and '-'
precedence_assign(c) ==
    CASE c \in {"*", "/"} -> 1
      [] c \in {"+", "-", "="} -> 2
      [] c = ")" -> 100
      [] OTHER -> 100

\* Expression::precedence
precedence(c) ==
    CASE c \in {"*", "/"} -> 1
      [] c \in {"+", "-"} -> 2
      [] c = ")" -> 100
      [] OTHER -> 100

\* has_value that only asks for a line
has_value_nonempty(b) == b.lines # <<>>

\* Block::has_value
has_value(b) ==
    IF b.lines = <<>> THEN FALSE
    ELSE b.lines[Len(b.lines)].tag = "ReturnStatement"

\* the final match of parse_prec: the node for the consumed operator
combine(p, operator, left, right) ==
    CASE operator = "*" -> Ok(p, Binary("Mul", left, right))
      [] operator = "/" -> Ok(p, Binary("Div", left, right))
      [] operator = "+" -> Ok(p, Binary("Add", left, right))
      [] operator = "-" -> Ok(p, Binary("Sub", left, right))
      [] OTHER -> Err(p, <<"Expected valid operator but found ", operator>>)

\* no rewriting of the last line
implicit_return_none(lines) == lines

\* rewriting of the first line instead of the last
implicit_return_first(lines) ==
    [lines EXCEPT ![1] = ReturnStatement(lines[1].value)]

\* the implicit return: the last line, a bare expression, becomes a return
implicit_return(lines) ==
    [lines EXCEPT ![Len(lines)] = ReturnStatement(lines[Len(lines)].value)]

RECURSIVE parse_prec(_, _), after_left(_, _), atom(_), Expression_parse(_),
          Block_parse(_), block_loop(_, _), block_after(_, _), line(_, _),
          parse_let(_), parse_return(_)

\* parse_prec with prec == 0, next token '{': the parsed block as the operand
block_operand(b) ==
    IF ~b.ok THEN b
    ELSE IF ~has_value(b.val)
    THEN Err(b.p, <<"Expected block with return value">>)
    ELSE Ok(b.p, BlockE(b.val))

\* close_paren that does without the ')'
close_paren_lenient(inside) ==
    IF ~inside.ok THEN inside
    ELSE IF peek(inside.p) = Operator(")")
    THEN Ok(next(inside.p), inside.val)
    ELSE Ok(peeked(inside.p), inside.val)

\* parse_prec with prec == 0, after '(' and the expression inside
close_paren(inside) ==
    IF ~inside.ok THEN inside
    ELSE LET c == expect_operator_of(inside.p, ")")
         IN IF ~c.ok THEN c ELSE Ok(c.p, inside.val)

\* atom that looks at an unexpected token without consuming it
atom_keeps_token(p) ==
    IF peek(p) = Operator("{")
    THEN block_operand(Block_parse(peeked(p)))
    ELSE LET t == peek(p)
             q == next(p)
         IN CASE t.k = "None" -> Err(q, <<"Expected expression but found end of input">>)
              [] t.k = "Err" -> Err(q, t.s)
              [] t.k = "Number" ->
                    IF IsFloatText(t.s) THEN Ok(q, Literal(NumVal(t.s)))
                    ELSE Err(q, <<"Failed to parse number: ", "invalid float literal">>)
              [] t.k = "Symbol" -> Ok(q, Variable(t.s))
              [] t = Operator("(") -> close_paren(Expression_parse(q))
              [] OTHER -> Err(peeked(p), <<"Expected number or symbol but found ">> \o fmt(t))

\* parse_prec with prec == 0: the left operand is an atom
atom(p) ==
    IF peek(p) = Operator("{")
    THEN block_operand(Block_parse(peeked(p)))
    ELSE LET t == peek(p)
             q == next(p)
         IN CASE t.k = "None" -> Err(q, <<"Expected expression but found end of input">>)
              [] t.k = "Err" -> Err(q, t.s)
              [] t.k = "Number" ->
                    IF IsFloatText(t.s) THEN Ok(q, Literal(NumVal(t.s)))
                    ELSE Err(q, <<"Failed to parse number: ", "invalid float literal">>)
              [] t.k = "Symbol" -> Ok(q, Variable(t.s))
              [] t = Operator("(") -> close_paren(Expression_parse(q))
              [] OTHER -> Err(q, <<"Expected number or symbol but found ">> \o fmt(t))

\* parse_prec, once the right operand is parsed
binary(right, operator, left) ==
    IF ~right.ok THEN right
    ELSE combine(right.p, operator, left.val, right.val)

\* after_left that consumes the token it stops at
after_left_consumes(left, prec) ==
    IF ~left.ok THEN left
    ELSE LET t == peek(left.p)
             p1 == peeked(left.p)
         IN CASE t.k = "None" -> Ok(p1, left.val)
              [] t.k = "Err" -> Err(p1, t.s)
              [] t.k = "Operator" /\ precedence(t.s[1]) <= prec ->
                    binary(parse_prec(next(p1), prec), t.s[1], left)
              [] OTHER -> Ok(next(p1), left.val)

\* parse_prec, once the left operand is parsed: the peek and the operator
after_left(left, prec) ==
    IF ~left.ok THEN left
    ELSE LET t == peek(left.p)
             p1 == peeked(left.p)
         IN CASE t.k = "None" -> Ok(p1, left.val)
              [] t.k = "Err" -> Err(p1, t.s)
              [] t.k = "Operator" /\ precedence(t.s[1]) <= prec ->
                    binary(parse_prec(next(p1), prec), t.s[1], left)
              [] OTHER -> Ok(p1, left.val)

parse_prec(p, prec) ==
    after_left(IF prec = 0 THEN atom(p) ELSE parse_prec(p, prec - 1), prec)

\* impl Parsable for Expression
Expression_parse(p) == parse_prec(p, 3)

KwLet == Symbol(<<"l", "e", "t">>)
KwReturn == Symbol(<<"r", "e", "t", "u", "r", "n">>)

\* let_type that forgets the type it has read
let_type_dropped(p, name) ==
    LET t == peek(p)
        q == next(p)
    IN CASE t.k = "Symbol" ->
              LET eq == expect_operator_of(q, "=")
              IN IF ~eq.ok THEN eq ELSE Ok(eq.p, NoType)
         [] t = Operator("=") -> Ok(q, NoType)
         [] t.k = "Err" -> Err(q, t.s)
         [] OTHER -> Err(q, <<"Expected type or '=' after let ">> \o name \o <<":">>)

\* parse_let, after ':': the type or '=', and the '=' after a type
let_type(p, name) ==
    LET t == peek(p)
        q == next(p)
    IN CASE t.k = "Symbol" ->
              LET eq == expect_operator_of(q, "=")
              IN IF ~eq.ok THEN eq ELSE Ok(eq.p, SomeType(t.s))
         [] t = Operator("=") -> Ok(q, NoType)
         [] t.k = "Err" -> Err(q, t.s)
         [] OTHER -> Err(q, <<"Expected type or '=' after let ">> \o name \o <<":">>)

\* parse_let, once the value is parsed
let_statement(value, name, type_) ==
    IF ~value.ok THEN value
    ELSE Ok(value.p, LetStatement(name, value.val, type_))

\* Block::parse_let
parse_let(p) ==
    LET name == expect_symbol(next(p))
    IN IF ~name.ok THEN name
       ELSE LET colon == expect_operator_of(name.p, ":")
            IN IF ~colon.ok THEN colon
               ELSE LET type_ == let_type(colon.p, name.val)
                    IN IF ~type_.ok THEN type_
                       ELSE let_statement(Expression_parse(type_.p), name.val, type_.val)

\* parse_return, once the value is parsed
return_statement(value) ==
    IF ~value.ok THEN value
    ELSE Ok(value.p, ReturnStatement(value.val))

\* Block::parse_return
parse_return(p) == return_statement(Expression_parse(next(p)))

\* Block::parse, a bare expression line once the expression is parsed
expression_line(value) ==
    IF ~value.ok THEN value
    ELSE Ok(value.p, LineExpression(value.val))

\* Block::parse, the line that the peeked token starts
line(token, p) ==
    IF token = KwLet THEN parse_let(p)
    ELSE IF token = KwReturn THEN parse_return(p)
    ELSE expression_line(Expression_parse(p))

\* block_after that lets '}' close the block after any line
block_after_any_close(l, lines) ==
    IF ~l.ok THEN l
    ELSE LET lines1 == Append(lines, l.val)
             t == peek(l.p)
             q == next(l.p)
         IN CASE t.k = "Err" -> Err(q, t.s)
              [] t = Operator(";") ->
                    IF peek(q) = Operator("}")
                    THEN Ok(next(q), Block(lines1))
                    ELSE block_loop(peeked(q), lines1)
              [] t = Operator("}") ->
                    IF lines1[Len(lines1)].tag = "Expression"
                    THEN Ok(q, Block(implicit_return(lines1)))
                    ELSE Ok(q, Block(lines1))
              [] t.k = "None" -> Err(q, <<"Expected ';' but found end of input">>)
              [] OTHER -> Err(q, <<"Expected ';' but found '">> \o fmt(t) \o <<"'">>)

\* block_after without the look for '}' after ';'
block_after_no_absorb(l, lines) ==
    IF ~l.ok THEN l
    ELSE LET lines1 == Append(lines, l.val)
             t == peek(l.p)
             q == next(l.p)
         IN CASE t.k = "Err" -> Err(q, t.s)
              [] t = Operator(";") -> block_loop(q, lines1)
              [] t = Operator("}") ->
                    IF lines1[Len(lines1)].tag = "Expression"
                    THEN Ok(q, Block(implicit_return(lines1)))
                    ELSE Err(q, <<"Expected expression before '}' or ';' operator">>)
              [] t.k = "None" -> Err(q, <<"Expected ';' but found end of input">>)
              [] OTHER -> Err(q, <<"Expected ';' but found '">> \o fmt(t) \o <<"'">>)

\* Block::parse, after a line has been parsed: the push and the separator
block_after(l, lines) ==
    IF ~l.ok THEN l
    ELSE LET lines1 == Append(lines, l.val)
             t == peek(l.p)
             q == next(l.p)
         IN CASE t.k = "Err" -> Err(q, t.s)
              [] t = Operator(";") ->
                    IF peek(q) = Operator("}")
                    THEN Ok(next(q), Block(lines1))
                    ELSE block_loop(peeked(q), lines1)
              [] t = Operator("}") ->
                    IF lines1[Len(lines1)].tag = "Expression"
                    THEN Ok(q, Block(implicit_return(lines1)))
                    ELSE Err(q, <<"Expected expression before '}' or ';' operator">>)
              [] t.k = "None" -> Err(q, <<"Expected ';' but found end of input">>)
              [] OTHER -> Err(q, <<"Expected ';' but found '">> \o fmt(t) \o <<"'">>)

\* Block::parse, one turn of the while loop: the dispatch on the peeked token
block_loop(p, lines) ==
    LET token == peek(p)
        p1 == peeked(p)
    IN CASE token.k = "None" -> Ok(p1, Block(lines))
         [] token.k = "Err" -> Err(p1, token.s)
         [] token = Operator("}") -> Ok(p1, Block(lines))
         [] OTHER -> block_after(line(token, p1), lines)

\* impl Parsable for Block
Block_parse(p) ==
    LET open == expect_operator_of(p, "{")
    IN IF ~open.ok THEN open ELSE block_loop(open.p, <<>>)

----------------------------------------------------------------------------
(* The inputs: bounded families of token streams *)

MaxAtoms == 4     \* atoms in an operator chain
MaxLen == 3       \* length of the streams over the whole alphabet
MaxLines == 2     \* lines written in a block
MaxLetLen == 3    \* tokens written after 'let'
MaxOperands == 2  \* operands (atoms, blocks, parentheses) joined by operators
MaxText == 4      \* chars of the texts over the whole set of chars

N1 == Number(<<"1">>)
N2 == Number(<<"2">>)
N30 == Number(<<"3", "0">>)
X == Symbol(<<"x">>)
TY == Symbol(<<"i", "3", "2">>)
PLUS == Operator("+")
MINUS == Operator("-")
STAR == Operator("*")
SLASH == Operator("/")
LP == Operator("(")
RP == Operator(")")
LB == Operator("{")
RB == Operator("}")
SEMI == Operator(";")
COLON == Operator(":")
EQ == Operator("=")
BAD == LexErr(<<"Number cannot be followed by a letter">>)

RECURSIVE Concat(_)
Concat(ss) == IF ss = <<>> THEN <<>> ELSE ss[1] \o Concat(Tail(ss))

SeqsUpTo(S, n) == UNION {[1..k -> S] : k \in 0..n}

\* atom (op atom)*
ChainAtoms == {N1, X}
ChainOps == {PLUS, MINUS, STAR, SLASH}
Chains ==
    UNION {{[i \in 1..(2 * k - 1) |-> IF i % 2 = 1 THEN a[(i + 1) \div 2] ELSE o[i \div 2]] :
                a \in [1..k -> ChainAtoms], o \in [1..(k - 1) -> ChainOps]} : k \in 1..MaxAtoms}

\* every stream over the alphabet, up to MaxLen items
Alphabet == {N1, X, KwLet, KwReturn, PLUS, STAR, LP, RP, LB, RB, SEMI, BAD}
Streams == SeqsUpTo(Alphabet, MaxLen)

\* '{' then lines, each followed by ';', by '}' or by nothing, then a tail
Lines == {<<N1>>, <<X, PLUS, N1>>, <<LB, N2, RB>>, <<KwReturn, N1>>,
          <<KwLet, X, COLON, TY, EQ, N1>>, <<KwLet, X, COLON, EQ, LB, N2, RB>>}
Terms == {<<SEMI>>, <<RB>>, <<>>}
Tails == {<<>>, <<RB>>}
Segments == {l \o t : l \in Lines, t \in Terms}
Blocks == {<<LB>> \o Concat(ss) \o t : ss \in SeqsUpTo(Segments, MaxLines), t \in Tails}

\* '{' 'let' then every stream over the tokens of a let line
LetAlphabet == {X, N1, COLON, EQ, SEMI, RB, BAD}
Lets == {<<LB, KwLet>> \o s : s \in SeqsUpTo(LetAlphabet, MaxLetLen)}

\* operands joined by operators
Operands == {<<N30>>, <<LB, N30, RB>>, <<LB, N30, SEMI, RB>>, <<LB, RB>>,
             <<LB, KwReturn, N30, SEMI, RB>>, <<LP, LB, N30, RB, RP>>,
             <<LB, LB, N30, SEMI, RB, SEMI, N1, RB>>}
Joined ==
    UNION {{Concat([i \in 1..(2 * k - 1) |-> IF i % 2 = 1 THEN a[(i + 1) \div 2] ELSE <<o[i \div 2]>>]) :
                a \in [1..k -> Operands], o \in [1..(k - 1) -> {PLUS, STAR}]} : k \in 1..MaxOperands}

\* nested programs with one item replaced by a lexical error
Deep == {<<LB, KwLet, X, COLON, TY, EQ, LP, N1, PLUS, LB, KwReturn, X, SEMI, RB, RP, SEMI, X, RB>>,
         <<LP, LP, X, STAR, LB, N1, RB, RP, RP>>,
         <<LB, KwLet, X, COLON, EQ, LB, KwReturn, LP, N1, RP, SEMI, RB, SEMI, RB>>,
         <<N30, PLUS, LB, KwReturn, N30, SEMI, RB, STAR, LP, X, RP>>,
         <<LB, N1, SEMI, KwReturn, LB, X, RB, SEMI, RB>>}
Corrupted == Deep \cup UNION {{[b EXCEPT ![i] = BAD] : i \in 1..Len(b)} : b \in Deep}

\* two expressions written one after the other, with nothing or with one
\* operator that is not + - * / between them
UnitChains == {<<N1>>, <<X>>, <<N1, PLUS, X>>, <<X, STAR, N1>>,
               <<N1, PLUS, X, STAR, N1>>, <<N1, STAR, X, MINUS, N1>>}
Stops == {<<>>, <<SEMI>>, <<RP>>, <<RB>>, <<LB>>, <<EQ>>, <<COLON>>}
Juxtaposed == {a \o s \o b : a \in UnitChains, s \in Stops, b \in UnitChains}

\* an expression in parentheses, closed or not, as the left or the right
\* operand of an operator or on its own
Openings == {<<LP>>, <<N2, STAR, LP>>, <<N2, PLUS, LP>>}
Closings == {<<RP>>, <<>>, <<SEMI>>, <<RB>>, <<N1>>}
Rests == {<<>>, <<STAR, N2>>, <<PLUS, N2>>, <<X>>}
Grouped == {o \o c \o cl \o r : o \in Openings, c \in UnitChains, cl \in Closings, r \in Rests}

Inputs ==
    Chains \cup Streams \cup Blocks \cup Lets \cup Joined \cup Corrupted \cup Juxtaposed \cup Grouped

\* a text that the tokenizer turns into the token: the only lexical error the
\* tokenizer yields is that of a digit run directly followed by a letter
TokenText(t) == IF t.k = "Err" THEN <<"1", "x">> ELSE t.s

\* the tokens written one after the other with one space between them
RECURSIVE Write(_)
Write(ts) ==
    IF ts = <<>> THEN <<>>
    ELSE IF Len(ts) = 1 THEN TokenText(ts[1])
    ELSE TokenText(ts[1]) \o <<" ">> \o Write(Tail(ts))

\* every text over a small set of chars, and the inputs of the tokenizer tests
TextChars == {"1", "2", "x", "+", "=", " ", BEL}
Samples == {<<"3", "+", "5", " ", "*", "2", "-", "8", " ", "/", "4">>,
            <<"v", "a", "r", "1", "2", "3", " ", "+", " ", "4", "5", "6", "v", "a", "r">>,
            <<"v", "a", "r", "1", " ", "+", " ", "v", "a", "r", "2">>,
            <<"a", "b", "c">>, <<"4", "2">>,
            <<"x", " ", ":", "=", "\n", "1", "2", "_", "y">>}
LexTexts == SeqsUpTo(TextChars, MaxText) \cup Samples


----------------------------------------------------------------------------
(* The state machine *)

NoResult == [some |-> FALSE, ok |-> FALSE, val |-> [tag |-> "None"]]
Returned(r, v) == [some |-> TRUE, ok |-> r.ok, val |-> IF r.ok THEN v ELSE r.val]

\* what a pull of the tokenizer returned
Pulled(item) ==
    CASE item.k = "None" -> NoResult
      [] item.k = "Err" -> [some |-> TRUE, ok |-> FALSE, val |-> [tag |-> "Error", text |-> item.s]]
      [] OTHER -> [some |-> TRUE, ok |-> TRUE, val |-> item]

Init ==
    /\ \/ \E ts \in Inputs : chars = Write(ts)
       \/ chars \in Samples
    /\ lexer = 0
    /\ items = <<>>
    /\ tokens = Tokenize(chars, 0)
    /\ parser = [pos |-> 0, seen |-> 0]
    /\ result = NoResult
    /\ op = "none"
    /\ from = [pos |-> 0, seen |-> 0]
    /\ units = 0

\* impl Iterator for Parser: one pull
ParserNext ==
    /\ op' = "next"
    /\ from' = parser
    /\ IF peek(parser).k = "None"
       THEN /\ result' = NoResult
            /\ parser' = peeked(parser)
            /\ units' = units
       ELSE LET r == Expression_parse(peeked(parser))
            IN /\ result' = Returned(r, AstExpression(r.val))
               /\ parser' = r.p
               /\ units' = units + 1
    /\ UNCHANGED <<chars, lexer, items, tokens>>

\* Block::parse called on a newly built parser, as parse_block does
BlockParse ==
    /\ op = "none"
    /\ op' = "block"
    /\ from' = parser
    /\ LET r == Block_parse(parser)
       IN /\ result' = Returned(r, r.val)
          /\ parser' = r.p
    /\ UNCHANGED <<chars, lexer, items, tokens, units>>

\* TokenizerInner::next called on a tokenizer of its own, as the tokenizer
\* tests do: one pull
TokenizerNext ==
    /\ op' = "lex"
    /\ LET r == TokenizerInner_next(chars, lexer)
       IN /\ lexer' = r.pos
          /\ items' = IF r.item.k = "None" THEN items ELSE Append(items, r)
          /\ result' = Pulled(r.item)
    /\ UNCHANGED <<chars, tokens, parser, from, units>>

Next == ParserNext \/ BlockParse

Spec == Init /\ [][Next]_vars

\* the tokenizer on its own, on every text over the set of chars
LexInit ==
    /\ chars \in LexTexts
    /\ lexer = 0
    /\ items = <<>>
    /\ tokens = Tokenize(chars, 0)
    /\ parser = [pos |-> 0, seen |-> 0]
    /\ result = NoResult
    /\ op = "none"
    /\ from = [pos |-> 0, seen |-> 0]
    /\ units = 0

LexNext == TokenizerNext

LexSpec == LexInit /\ [][LexNext]_vars

----------------------------------------------------------------------------
(* Reference readings of the input, independent of the parser *)

IsAtomToken(t) == t.k \in {"Number", "Symbol"}
IsChainOp(t) == t \in {PLUS, MINUS, STAR, SLASH}

IsChain(ts) ==
    /\ Len(ts) % 2 = 1
    /\ \A i \in 1..Len(ts) : IF i % 2 = 1 THEN IsAtomToken(ts[i]) ELSE IsChainOp(ts[i])

RefAtom(t) == IF t.k = "Number" THEN Literal(NumVal(t.s)) ELSE Variable(t.s)

RefNode(o, l, r) ==
    Binary(CASE o = PLUS -> "Add" [] o = MINUS -> "Sub" [] o = STAR -> "Mul" [] o = SLASH -> "Div", l, r)

\* E1 ::= atom [(*|/) E1] on tokens[i..j]
RECURSIVE RefE1(_, _)
RefE1(i, j) ==
    IF i = j THEN RefAtom(tokens[i])
    ELSE RefNode(tokens[i + 1], RefAtom(tokens[i]), RefE1(i + 2, j))

\* E2 ::= E1 [(+|-) E2] on tokens[i..j]
RECURSIVE RefE2(_, _)
RefE2(i, j) ==
    LET cut == {k \in i..j : tokens[k] \in {PLUS, MINUS}}
    IN IF cut = {} THEN RefE1(i, j)
       ELSE LET k == CHOOSE m \in cut : \A n \in cut : m <= n
            IN RefNode(tokens[k], RefE1(i, k - 1), RefE2(k + 1, j))

\* the spec's notion of a block with a value, on an AST block
LastIsReturn(b) == b.lines # <<>> /\ b.lines[Len(b.lines)].tag = "ReturnStatement"

RECURSIVE BlocksValued(_)
BlocksValued(e) ==
    CASE e.tag \in {"Literal", "Variable"} -> TRUE
      [] e.tag = "Block" ->
            /\ LastIsReturn(e.block)
            /\ \A i \in 1..Len(e.block.lines) : BlocksValued(e.block.lines[i].value)
      [] OTHER -> BlocksValued(e.l) /\ BlocksValued(e.r)

At(i) == [pos |-> i, seen |-> i]
ErrorOf(text) == [some |-> TRUE, ok |-> FALSE, val |-> [tag |-> "Error", text |-> text]]

\* the lines written in the block opened at tokens[i - 1], split at the ';' and
\* the '}' of the block itself: start, end (the separator's index), term
RECURSIVE Scan(_, _, _, _)
Scan(i, depth, start, segs) ==
    IF i > Len(tokens)
    THEN [segs |-> IF start < i THEN Append(segs, [start |-> start, end |-> i, term |-> "eof"]) ELSE segs,
          close |-> 0]
    ELSE CASE tokens[i] = LB -> Scan(i + 1, depth + 1, start, segs)
           [] tokens[i] = RB /\ depth > 0 -> Scan(i + 1, depth - 1, start, segs)
           [] tokens[i] = RB /\ depth = 0 ->
                 [segs |-> IF start < i THEN Append(segs, [start |-> start, end |-> i, term |-> "}"]) ELSE segs,
                  close |-> i]
           [] tokens[i] = SEMI /\ depth = 0 ->
                 Scan(i + 1, 0, i + 1, Append(segs, [start |-> start, end |-> i, term |-> ";"]))
           [] OTHER -> Scan(i + 1, depth, start, segs)

\* the block the last Block::parse call was given
IsBlockCall == op = "block" /\ peek(from) = LB
Written == Scan(from.pos + 2, 0, from.pos + 2, <<>>)

LeadOf(seg) ==
    IF tokens[seg.start] = KwLet THEN "let"
    ELSE IF tokens[seg.start] = KwReturn THEN "return" ELSE "bare"

\* the line that starts at tokens[i], parsed on its own
RefLine(i) ==
    IF tokens[i] = KwLet THEN parse_let(At(i - 1))
    ELSE IF tokens[i] = KwReturn THEN parse_return(At(i - 1))
    ELSE LET value == Expression_parse(At(i - 1))
         IN IF ~value.ok THEN value ELSE Ok(value.p, LineExpression(value.val))

\* the segment is one whole line: it parses and ends right before its separator
LineOk(seg) ==
    /\ seg.start < seg.end
    /\ LET r == RefLine(seg.start) IN r.ok /\ r.p.pos = seg.end - 1

LinesOk(segs) == \A i \in 1..Len(segs) : LineOk(segs[i])

----------------------------------------------------------------------------
(* Claims *)

\* C1: a chain of atoms joined by + - * / parses to the tree of the grammar
\* E2 ::= E1 [(+|-) E2], E1 ::= atom [(*|/) E1]: * and / bind tighter, and
\* operators of one tier nest to the right; the whole chain is consumed.
C1_ChainParsesAsGrammar ==
    (op = "next" /\ from.pos = 0 /\ IsChain(tokens)) =>
        /\ result = [some |-> TRUE, ok |-> TRUE, val |-> AstExpression(RefE2(1, Len(tokens)))]
        /\ parser.pos = Len(tokens)

C1_Witness ==
    /\ op = "next" /\ from.pos = 0 /\ IsChain(tokens) /\ Len(tokens) = 7
    /\ tokens[2] = MINUS /\ tokens[4] = STAR /\ tokens[6] = MINUS
    /\ result.ok /\ result.val.e.tag = "Sub" /\ result.val.e.r.tag = "Sub"
    /\ result.val.e.r.l.tag = "Mul"

\* C2: every Block node of a returned expression has a value, and a block
\* without a value met as the first atom or as the right operand of a binary
\* operator fails the parse with 'Expected block with return value'.
C2_BlockOperandHasValue ==
    /\ (op = "next" /\ result.ok) => BlocksValued(result.val.e)
    /\ (op = "block" /\ result.ok) =>
          \A i \in 1..Len(result.val.lines) : BlocksValued(result.val.lines[i].value)
    /\ \A d \in {0, 2} :
          (/\ op = "next" /\ peek(At(from.pos + d)) = LB
           /\ d = 2 => (IsAtomToken(peek(from)) /\ IsChainOp(peek(At(from.pos + 1))))
           /\ LET b == Block_parse(At(from.pos + d)) IN b.ok /\ ~LastIsReturn(b.val))
          => result = ErrorOf(<<"Expected block with return value">>)

C2_Witness ==
    /\ op = "next" /\ result.ok /\ result.val.e.tag = "Add"
    /\ result.val.e.l.tag = "Literal" /\ result.val.e.r.tag = "Block"
    /\ LastIsReturn(result.val.e.r.block)

\* C3: a returned block has a value exactly when it is not empty and its last
\* line was written 'return EXPR ;' or as a bare expression closed by '}'.
C3_HasValueIffLastLineReturns ==
    (IsBlockCall /\ result.ok) =>
        LET segs == Written.segs
            last == segs[Len(segs)]
        IN has_value(result.val) <=>
              /\ segs # <<>>
              /\ \/ LeadOf(last) = "return" /\ last.term = ";"
                 \/ LeadOf(last) = "bare" /\ last.term = "}"

C3_Witness ==
    /\ IsBlockCall /\ result.ok /\ ~has_value(result.val)
    /\ Len(result.val.lines) = 2 /\ result.val.lines[1].tag = "ReturnStatement"
    /\ result.val.lines[2].tag = "Expression"

\* C4: a bare expression line directly followed by the closing '}' becomes, in
\* place, the ReturnStatement of the same expression and the block is closed;
\* the number of lines and every earlier line are as written.
C4_ImplicitReturnInPlace ==
    LET segs == Written.segs
        n == Len(segs)
    IN (/\ IsBlockCall /\ n > 0 /\ LinesOk(segs)
        /\ segs[n].term = "}" /\ LeadOf(segs[n]) = "bare") =>
            /\ result.ok
            /\ result.val.lines =
                  [i \in 1..n |-> IF i = n THEN ReturnStatement(RefLine(segs[i].start).val.value)
                                  ELSE RefLine(segs[i].start).val]
            /\ parser.pos = Written.close

C4_Witness ==
    /\ IsBlockCall /\ result.ok /\ Len(result.val.lines) = 2
    /\ Len(Written.segs) = 2 /\ Written.segs[2].term = "}"
    /\ result.val.lines[1].tag = "Expression"
    /\ result.val.lines[2] = ReturnStatement(Binary("Add", Variable(<<"x">>), Literal(1)))

\* C5: Block::parse fails when the input ends before the closing '}' of the
\* block, for instance directly after '{' or after the ';' that ends a line.
C5_UnclosedBlockFails ==
    (IsBlockCall /\ Written.close = 0) => ~result.ok

\* C6: after the lines written before it, a let or return line directly
\* followed by '}' fails with 'Expected expression before '}' or ';' operator',
\* a bare expression line may be closed by '}', and a line followed by any
\* other token or by the end of the input is an error.
C6_LineSeparator ==
    LET segs == Written.segs
    IN IsBlockCall =>
        \A k \in 1..Len(segs) :
            (\A i \in 1..(k - 1) : LineOk(segs[i]) /\ segs[i].term = ";") =>
                LET seg == segs[k]
                    r == RefLine(seg.start)
                IN /\ (LineOk(seg) /\ seg.term = "}" /\ LeadOf(seg) \in {"let", "return"}) =>
                          result = ErrorOf(<<"Expected expression before '}' or ';' operator">>)
                   /\ (LineOk(seg) /\ seg.term = "}" /\ LeadOf(seg) = "bare") => result.ok
                   /\ (seg.start < seg.end /\ r.ok /\ r.p.pos < seg.end - 1) =>
                          result = ErrorOf(<<"Expected ';' but found '">> \o fmt(tokens[r.p.pos + 1]) \o <<"'">>)
                   /\ (LineOk(seg) /\ seg.term = "eof") =>
                          result = ErrorOf(<<"Expected ';' but found end of input">>)

C6_Witness ==
    /\ IsBlockCall /\ Len(Written.segs) = 2 /\ LinesOk(Written.segs)
    /\ Written.segs[2].term = "}" /\ LeadOf(Written.segs[2]) = "let"
    /\ result = ErrorOf(<<"Expected expression before '}' or ';' operator">>)

\* C7: a block written '{ L1 ; ... ; Ln ; }' with n >= 1 parses to exactly its
\* n lines, in order and as written (the last one is not rewritten), and the
\* closing '}' is consumed.
C7_TrailingSemicolonAbsorbed ==
    LET segs == Written.segs
        n == Len(segs)
    IN (/\ IsBlockCall /\ n >= 1 /\ LinesOk(segs) /\ Written.close # 0
        /\ \A i \in 1..n : segs[i].term = ";") =>
            /\ result.ok
            /\ result.val.lines = [i \in 1..n |-> RefLine(segs[i].start).val]
            /\ parser.pos = Written.close

C7_Witness ==
    /\ IsBlockCall /\ result.ok /\ Len(Written.segs) = 2 /\ Written.close = Len(tokens)
    /\ \A i \in 1..2 : Written.segs[i].term = ";"
    /\ result.val.lines[1].tag = "LetStatement"
    /\ result.val.lines[2] = LineExpression(Literal(1))
    /\ parser.pos = Len(tokens)

TokenAt(j) == IF j <= Len(tokens) THEN tokens[j] ELSE NoItem

\* C8: in a block, 'let' NAME ':' TYPE '=' EXPR gives a LetStatement with
\* type_ Some(TYPE) and 'let' NAME ':' '=' EXPR one with type_ None; a let
\* line of neither form fails.
C8_LetForms ==
    (IsBlockCall /\ TokenAt(from.pos + 2) = KwLet) =>
        LET i == from.pos + 3
            named == TokenAt(i).k = "Symbol" /\ TokenAt(i + 1) = COLON
            typed == named /\ TokenAt(i + 2).k = "Symbol" /\ TokenAt(i + 3) = EQ
            untyped == named /\ TokenAt(i + 2) = EQ
            e == Expression_parse(At(IF typed THEN i + 3 ELSE i + 2))
        IN /\ (typed /\ result.ok) =>
                 result.val.lines[1] = LetStatement(TokenAt(i).s, e.val, SomeType(TokenAt(i + 2).s))
           /\ (untyped /\ result.ok) =>
                 result.val.lines[1] = LetStatement(TokenAt(i).s, e.val, NoType)
           /\ ((typed \/ untyped) /\ e.ok /\ peek(e.p) = SEMI /\ peek(next(e.p)) = RB) =>
                 result.ok /\ Len(result.val.lines) = 1
           /\ ~(typed \/ untyped) => ~result.ok

C8_Witness ==
    /\ IsBlockCall /\ result.ok /\ Len(result.val.lines) = 2
    /\ result.val.lines[1] = LetStatement(<<"x">>, Literal(1), SomeType(<<"i", "3", "2">>))
    /\ result.val.lines[2].tag = "LetStatement" /\ result.val.lines[2].type_ = NoType

\* C9: a call during which the tokenizer yields a lexical error item returns
\* an error with the item's message unchanged, no AST, and consumes nothing
\* after the item.
C9_LexicalErrorAborts ==
    \A i \in (from.pos + 1)..parser.seen :
        (op # "none" /\ result.some /\ tokens[i].k = "Err") =>
            /\ result = ErrorOf(tokens[i].s)
            /\ parser.pos <= i

C9_Witness ==
    /\ op = "next" /\ from.pos = 0 /\ parser.seen >= 9 /\ tokens[parser.seen] = BAD
    /\ tokens[1] = LB /\ tokens[7] = LP /\ tokens[10] = LB
    /\ result = ErrorOf(BAD.s)

\* C10: a pull returns None exactly when no token is left, a pull made while a
\* token is left consumes at least one token, the units returned never
\* outnumber the tokens consumed and the cursor never passes the end of the
\* stream: the pulls that return a unit are at most as many as the tokens.
C10_PullsAdvance ==
    /\ op = "next" => (result.some <=> from.pos < Len(tokens))
    /\ (op = "next" /\ result.some) => parser.pos > from.pos
    /\ units <= parser.pos
    /\ parser.pos <= Len(tokens)

C10_Witness ==
    /\ op = "next" /\ ~result.some /\ units = 3 /\ Len(tokens) >= 5

RECURSIVE ChainEnd(_)
ChainEnd(i) ==
    IF i + 2 <= Len(tokens) /\ IsChainOp(tokens[i + 1]) /\ IsAtomToken(tokens[i + 2])
    THEN ChainEnd(i + 2)
    ELSE i

LevelOps(prec) == IF prec = 0 THEN {} ELSE IF prec = 1 THEN {STAR, SLASH} ELSE ChainOps

\* C11: an expression parse that stops at a token that is not a binary
\* operator of its level (a number, a symbol, another operator, the end of the
\* input) returns the operand unchanged and leaves that token in the stream;
\* a pull of the Parser that starts at a chain of atoms returns the tree of
\* that chain and stops right after it, so two expressions written one after
\* the other are two successive units, the second starting at that token.
C11_StopTokenNotConsumed ==
    (op = "next" /\ IsAtomToken(TokenAt(from.pos + 1))) =>
        LET i == from.pos + 1
            j == ChainEnd(i)
        IN /\ (TokenAt(j + 1).k # "Err" /\ ~IsChainOp(TokenAt(j + 1))) =>
                 /\ result = [some |-> TRUE, ok |-> TRUE, val |-> AstExpression(RefE2(i, j))]
                 /\ parser.pos = j
           /\ \A prec \in 0..3 :
                 (TokenAt(i + 1).k # "Err" /\ TokenAt(i + 1) \notin LevelOps(prec)) =>
                     LET r == parse_prec(At(i - 1), prec)
                     IN r.ok /\ r.val = RefAtom(tokens[i]) /\ r.p.pos = i

C11_Witness ==
    /\ op = "next" /\ units = 2 /\ from.pos = 3 /\ parser.pos = 6 /\ Len(tokens) = 6
    /\ tokens[2] = PLUS /\ IsAtomToken(tokens[4]) /\ tokens[5] = STAR
    /\ result.ok /\ result.val.e.tag = "Mul"

\* the char at index i of the text, or no char
CharAt(i) == IF 1 <= i /\ i <= Len(chars) THEN chars[i] ELSE ""

\* the chars of the text from index a to index b are all of the class
AllIn(a, b, class) == \A i \in a..b : chars[i] \in class

\* C12: a digit run directly followed by a letter yields a lexical error item
\* and no Number; every Number yielded is a non-empty maximal run of digits
\* that no letter follows, and every Symbol a run of letters and digits that
\* starts with a letter and runs to the first char of another class (so
\* 'var123' is one Symbol); it starts a run unless it follows the digits of a
\* lexical error.
C12_NumberNotBeforeLetter ==
    /\ \A k \in 1..Len(items) :
          LET it == items[k]
              a == it.from + 1
              b == it.pos
          IN /\ it.item.k = "Number" =>
                   /\ a <= b /\ AllIn(a, b, Digits) /\ it.item.s = SubSeq(chars, a, b)
                   /\ CharAt(a - 1) \notin Digits
                   /\ CharAt(b + 1) \notin Digits \cup Letters
             /\ it.item.k = "Symbol" =>
                   /\ a <= b /\ chars[a] \in Letters /\ AllIn(a, b, Letters \cup Digits)
                   /\ it.item.s = SubSeq(chars, a, b)
                   /\ CharAt(a - 1) \notin Letters
                   /\ CharAt(a - 1) \in Digits => (k > 1 /\ items[k - 1].item.k = "Err")
                   /\ CharAt(b + 1) \notin Digits \cup Letters
             /\ it.item.k = "Err" =>
                   /\ a <= b /\ AllIn(a, b, Digits) /\ CharAt(b + 1) \in Letters
                   /\ it.item.s = <<"Number cannot be followed by a letter">>
    /\ \A a \in 1..lexer : \A b \in a..Len(chars) :
          (/\ AllIn(a, b, Digits) /\ CharAt(a - 1) \notin Digits \cup Letters
           /\ CharAt(b + 1) \in Letters) =>
              \E k \in 1..Len(items) :
                  items[k].from = a - 1 /\ items[k].pos = b /\ items[k].item.k = "Err"

C12_Witness ==
    /\ op = "lex" /\ Len(chars) = 15 /\ Len(items) = 3
    /\ items[1].item = Symbol(<<"v", "a", "r", "1", "2", "3">>)
    /\ items[2].item = Operator("+")
    /\ items[3].item.k = "Err" /\ items[3].from = 9 /\ items[3].pos = 12

\* the reference lexing of a text: whitespace gives nothing, every punctuation
\* char is one Operator, every maximal run of letters and digits is one token,
\* a Number if it starts with a digit and a Symbol if it starts with a letter
Alnum == Letters \cup Digits

InScope(cs) ==
    /\ \A i \in 1..Len(cs) : cs[i] \in Alnum \cup Punctuation \cup Whitespace
    /\ \A i \in 1..(Len(cs) - 1) : ~(cs[i] \in Digits /\ cs[i + 1] \in Letters)

Starts(cs) ==
    {i \in 1..Len(cs) : \/ cs[i] \in Punctuation
                        \/ cs[i] \in Alnum /\ (i = 1 \/ cs[i - 1] \notin Alnum)}

RunEnd(cs, i) ==
    IF cs[i] \in Punctuation THEN i
    ELSE CHOOSE j \in i..Len(cs) :
            /\ \A k \in i..j : cs[k] \in Alnum
            /\ (j = Len(cs) \/ cs[j + 1] \notin Alnum)

RefToken(cs, i) ==
    IF cs[i] \in Punctuation THEN Operator(cs[i])
    ELSE IF cs[i] \in Digits THEN Number(SubSeq(cs, i, RunEnd(cs, i)))
    ELSE Symbol(SubSeq(cs, i, RunEnd(cs, i)))

\* the elements of a set of indices in increasing order
Sorted(S) ==
    [k \in 1..Cardinality(S) |-> CHOOSE i \in S : Cardinality({j \in S : j < i}) = k - 1]

RefLex(cs) == [k \in 1..Cardinality(Starts(cs)) |-> RefToken(cs, Sorted(Starts(cs))[k])]

\* the text without the chars at the indices in D
Without(cs, D) ==
    LET keep == Sorted((1..Len(cs)) \ D)
    IN [k \in 1..Len(keep) |-> cs[keep[k]]]

\* the nearest char that is not whitespace on either side of index i (0: none)
LeftOf(cs, i) ==
    LET S == {j \in 1..(i - 1) : cs[j] \notin Whitespace}
    IN IF S = {} THEN 0 ELSE CHOOSE j \in S : \A m \in S : m <= j

RightOf(cs, i) ==
    LET S == {j \in (i + 1)..Len(cs) : cs[j] \notin Whitespace}
    IN IF S = {} THEN 0 ELSE CHOOSE j \in S : \A m \in S : j <= m

\* the kind of the token of the reference lexing that holds the char at index p
KindAt(cs, p) ==
    IF cs[p] \in Punctuation THEN "Operator"
    ELSE LET st == CHOOSE j \in Starts(cs) : j <= p /\ \A m \in Starts(cs) : m <= p => m <= j
         IN IF cs[st] \in Digits THEN "Number" ELSE "Symbol"

\* whitespace between two tokens of different kinds
BetweenKinds(cs, i) ==
    /\ cs[i] \in Whitespace /\ LeftOf(cs, i) # 0 /\ RightOf(cs, i) # 0
    /\ KindAt(cs, LeftOf(cs, i)) # KindAt(cs, RightOf(cs, i))

\* whitespace between an Operator and a token of another kind
BesideOperator(cs, i) ==
    /\ BetweenKinds(cs, i)
    /\ "Operator" \in {KindAt(cs, LeftOf(cs, i)), KindAt(cs, RightOf(cs, i))}

\* the text with a space put between every two tokens of different kinds that
\* are written with nothing between them
RECURSIVE Spaced(_, _)
Spaced(cs, i) ==
    IF i > Len(cs) THEN <<>>
    ELSE IF /\ i < Len(cs) /\ cs[i] \notin Whitespace /\ cs[i + 1] \notin Whitespace
            /\ i + 1 \in Starts(cs) /\ KindAt(cs, i) # KindAt(cs, i + 1)
    THEN <<cs[i], " ">> \o Spaced(cs, i + 1)
    ELSE <<cs[i]>> \o Spaced(cs, i + 1)

ItemsOf(its) == [k \in 1..Len(its) |-> its[k].item]
Finished == op = "lex" /\ ~result.some

\* C13 as stated: on a text of digits, letters, punctuation and whitespace
\* with no digit directly followed by a letter, the items pulled up to the end
\* of the input are the reference lexing, and taking out or putting in
\* whitespace between tokens of different kinds gives the same items (as far
\* as the text is still one with no digit directly followed by a letter).
C13_LexingAsStated ==
    (Finished /\ InScope(chars)) =>
        /\ ItemsOf(items) = RefLex(chars)
        /\ lexer = Len(chars)
        /\ tokens = RefLex(chars)
        /\ Tokenize(Spaced(chars, 1), 0) = tokens
        /\ LET closed == Without(chars, {i \in 1..Len(chars) : BetweenKinds(chars, i)})
           IN InScope(closed) => Tokenize(closed, 0) = tokens

\* C13 amended: as above, but whitespace may only be taken out between an
\* Operator and a token of another kind; whitespace between a Number and a
\* Symbol separates them.
C13_LexingAmended ==
    (Finished /\ InScope(chars)) =>
        /\ ItemsOf(items) = RefLex(chars)
        /\ lexer = Len(chars)
        /\ tokens = RefLex(chars)
        /\ Tokenize(Spaced(chars, 1), 0) = tokens
        /\ Tokenize(Without(chars, {i \in 1..Len(chars) : BesideOperator(chars, i)}), 0) = tokens

C13_Witness ==
    /\ Finished /\ Len(chars) = 11 /\ Len(items) = 9
    /\ Without(chars, {i \in 1..Len(chars) : BesideOperator(chars, i)})
          = <<"3", "+", "5", "*", "2", "-", "8", "/", "4">>
    /\ items[4].item = Operator("*") /\ items[9].item = Number(<<"4">>)

Ends(t) == t.k # "Err" /\ ~IsChainOp(t)

\* C14: '(' E ')' as an atom is the tree of E parsed as a whole expression,
\* with no node of its own and with both parentheses consumed, so that
\* parentheses override the precedence ('(1 + 2) * 3' is Mul(Add(1,2), 3) and
\* '1 * (2 + 3)' is Mul(1, Add(2,3))); when E is not followed by ')' the parse
\* fails.
C14_ParenthesesGroup ==
    /\ \A i \in (from.pos + 1)..Len(tokens) :
          (op = "next" /\ tokens[i] = LP) =>
              LET e == Expression_parse(At(i))
                  a == atom(At(i - 1))
              IN /\ (e.ok /\ peek(e.p) = RP) =>
                       a.ok /\ a.val = e.val /\ a.p.pos = e.p.pos + 1
                 /\ (e.ok /\ peek(e.p) # RP) => ~a.ok
                 /\ (IsAtomToken(TokenAt(i + 1)) /\ TokenAt(ChainEnd(i + 1) + 1) = RP) =>
                       e.ok /\ e.val = RefE2(i + 1, ChainEnd(i + 1))
    /\ (op = "next" /\ TokenAt(from.pos + 1) = LP) =>
          LET e == Expression_parse(At(from.pos + 1))
              close == e.p.pos + 1
          IN /\ (e.ok /\ peek(e.p) # RP) => ~result.ok
             /\ (e.ok /\ peek(e.p) = RP /\ Ends(TokenAt(close + 1))) =>
                   /\ result = [some |-> TRUE, ok |-> TRUE, val |-> AstExpression(e.val)]
                   /\ parser.pos = close
             /\ (/\ e.ok /\ peek(e.p) = RP /\ IsChainOp(TokenAt(close + 1))
                 /\ IsAtomToken(TokenAt(close + 2)) /\ Ends(TokenAt(close + 3))) =>
                   /\ result.ok
                   /\ result.val.e = RefNode(tokens[close + 1], e.val, RefAtom(tokens[close + 2]))
                   /\ parser.pos = close + 2
    /\ (/\ op = "next" /\ IsAtomToken(TokenAt(from.pos + 1))
        /\ IsChainOp(TokenAt(from.pos + 2)) /\ TokenAt(from.pos + 3) = LP) =>
          LET e == Expression_parse(At(from.pos + 3))
              close == e.p.pos + 1
          IN /\ (e.ok /\ peek(e.p) # RP) => ~result.ok
             /\ (e.ok /\ peek(e.p) = RP /\ Ends(TokenAt(close + 1))) =>
                   /\ result.ok
                   /\ result.val.e =
                         RefNode(tokens[from.pos + 2], RefAtom(tokens[from.pos + 1]), e.val)
                   /\ parser.pos = close

C14_Witness ==
    /\ op = "next" /\ from.pos = 0 /\ Len(tokens) = 7 /\ parser.pos = 7
    /\ tokens[1] = LP /\ tokens[3] = PLUS /\ tokens[5] = RP /\ tokens[6] = STAR
    /\ result.ok /\ result.val.e.tag = "Mul" /\ result.val.e.l.tag = "Add"
    /\ result.val.e.r = Literal(2)

\* C15: when Block::parse succeeds on an input that holds the closing '}' of
\* the block, it has consumed every token from the '{' through that '}': the
\* next token is the one after the '}', also for the empty block '{}'.
C15_BlockConsumedThroughClose ==
    (IsBlockCall /\ result.ok /\ Written.close # 0) => parser.pos = Written.close

RECURSIVE BinCount(_), LinesBinCount(_)
BinCount(e) ==
    CASE e.tag \in {"Literal", "Variable"} -> 0
      [] e.tag = "Block" -> LinesBinCount(e.block.lines)
      [] OTHER -> 1 + BinCount(e.l) + BinCount(e.r)

LinesBinCount(lines) ==
    IF lines = <<>> THEN 0
    ELSE BinCount(lines[1].value) + LinesBinCount(Tail(lines))

IsOtherOperator(t) == t.k = "Operator" /\ ~IsChainOp(t)
NoValidOperatorError(r) ==
    r.ok \/ r.val.text = <<>> \/ r.val.text[1] # "Expected valid operator but found "

\* C16: the expression parser takes a token as a binary operator only when it
\* is + - * /: a returned tree has as many binary nodes as + - * / tokens were
\* consumed, any other operator after an operand ends the parse at every level
\* and stays in the stream, no call fails with 'Expected valid operator but
\* found ...', and the token after a successful Expression::parse is never
\* + - * /.
C16_OnlyArithmeticOperators ==
    /\ (op = "next" /\ result.ok) =>
          /\ ~IsChainOp(peek(parser))
          /\ BinCount(result.val.e) =
                Cardinality({k \in (from.pos + 1)..parser.pos : IsChainOp(tokens[k])})
    /\ (op = "block" /\ result.ok) =>
          LinesBinCount(result.val.lines) =
                Cardinality({k \in (from.pos + 1)..parser.pos : IsChainOp(tokens[k])})
    /\ (op # "none" /\ result.some) => NoValidOperatorError(result)
    /\ (op = "next" /\ from.pos = 0) =>
          \A i \in 0..(Len(tokens) - 1) :
              LET e == Expression_parse(At(i))
              IN NoValidOperatorError(e) /\ (e.ok => ~IsChainOp(peek(e.p)))
    /\ (op = "next" /\ IsAtomToken(TokenAt(from.pos + 1)) /\ IsOtherOperator(TokenAt(from.pos + 2))) =>
          /\ result = [some |-> TRUE, ok |-> TRUE,
                       val |-> AstExpression(RefAtom(tokens[from.pos + 1]))]
          /\ parser.pos = from.pos + 1
          /\ \A prec \in 0..3 :
                LET r == parse_prec(At(from.pos), prec)
                IN r.ok /\ r.val = RefAtom(tokens[from.pos + 1]) /\ r.p.pos = from.pos + 1

C16_Witness ==
    /\ op = "next" /\ units = 1 /\ result.ok /\ parser.pos = 3 /\ Len(tokens) = 5
    /\ tokens[2] = PLUS /\ tokens[4] = EQ /\ result.val.e.tag = "Add"

====
